---- MODULE Spec2Model ----
(***************************************************************************)
(* A model of the AML interpreter context of the `aml` crate               *)
(* (src/aml/src/lib.rs): AmlContext::new, parse_table, invoke_method,      *)
(* initialize_objects, read_indexed_field, write_indexed_field,            *)
(* current_arg, local, store and add_predefined_objects.                   *)
(*                                                                         *)
(* lib.rs is the only module of the crate at hand.  The namespace          *)
(* (namespace.rs), the values (value.rs) and the term parser               *)
(* (term_object.rs, statement.rs, expression.rs) are modelled from the     *)
(* specification, sections 3, 4.4, 4.5 and 4.7.                            *)
(*                                                                         *)
(* invoke_method is re-entrant (a method body may invoke methods), so the  *)
(* Rust call stack is a variable: one frame per term list being parsed,    *)
(* holding the locals `old_context` and `old_scope` of invoke_method.      *)
(***************************************************************************)
EXTENDS Integers, Sequences, FiniteSets, TLC

VARIABLES
    namespace,       \* AmlContext.namespace: [levels, values]
    method_context,  \* AmlContext.method_context: Option<MethodContext>
    current_scope,   \* AmlContext.current_scope: an absolute path
    stack,           \* the Rust call stack: one frame per running term list
    prop,            \* the propagation leaving the term list of the top frame
    ev,              \* history: what the last step did, and the state before it
    ncalls,          \* history: number of calls made by the host so far
    init,            \* the activation of initialize_objects: where it is, its locals
    visited,         \* history: what the running initialize_objects invoked and visited
    field,           \* the index field that is read: flags, offset, length
    io,              \* the index/data register pair and the accesses made to it
    wr               \* the write of the index field: the value, what the write returned

initvars == <<init, visited>>
fieldvars == <<field, io, wr>>
ctxvars == <<namespace, method_context, current_scope, stack, prop, ev, ncalls>>
vars == <<namespace, method_context, current_scope, stack, prop, ev, ncalls,
          init, visited, field, io, wr>>

-----------------------------------------------------------------------------
(* Bounds of the model.                                                    *)

\* The host makes at most MaxCalls calls of parse_table / invoke_method.
MaxCalls == 3
\* At most MaxDepth term lists are being parsed at once.
MaxDepth == 4
\* An index field is at most MaxLength bits long.
MaxLength == 65

-----------------------------------------------------------------------------
(* Option, AmlError, Result, Propagate.                                    *)

None == [type |-> "None"]

Root == <<>>

\* An AmlError: its variant, and the payload of the variants that carry a
\* number (InvalidLocalAccess, InvalidArgAccess) or a name.
Error(kind, num, name) == [kind |-> kind, num |-> num, name |-> name]
E(kind) == Error(kind, 0, Root)
NoError == E("-")

Ok(v) == [ok |-> TRUE, val |-> v, err |-> NoError]
Err(e) == [ok |-> FALSE, val |-> None, err |-> e]

\* parser::Propagate, with "None" for a term list that parsed to its end.
Propagate(p, v, e) == [p |-> p, val |-> v, err |-> e]
PNone == Propagate("None", None, NoError)
PReturn(v) == Propagate("Return", v, NoError)
PBreak == Propagate("Break", None, NoError)
PContinue == Propagate("Continue", None, NoError)
PErr(e) == Propagate("Err", None, e)

-----------------------------------------------------------------------------
(* AmlValue.  A u64 is its 8 bytes, least significant first.               *)

U64(n) == <<n % 256, n \div 256, 0, 0, 0, 0, 0, 0>>
Integer(bytes) == [type |-> "Integer", int |-> bytes]
String(s) == [type |-> "String", str |-> s]
AmlCode(terms) == [kind |-> "Aml", terms |-> terms]
NativeCode(fn) == [kind |-> "Native", fn |-> fn]
Method(arg_count, code) == [type |-> "Method", arg_count |-> arg_count, code |-> code]

\* AmlValue::zero() and AmlValue::ones()
Zero == Integer(U64(0))
Ones == Integer([i \in 1..8 |-> 255])

TypeOf(v) == v.type

-----------------------------------------------------------------------------
(* AmlName: an optional root marker and a sequence of segments.  An        *)
(* absolute, normalized name is written as its sequence of segments.       *)

AmlName(root, segs) == [root |-> root, segs |-> segs]
Abs(segs) == AmlName(TRUE, segs)
Rel(segs) == AmlName(FALSE, segs)

Parent(path) == SubSeq(path, 1, Len(path) - 1)
IsPrefix(p, q) == Len(p) <= Len(q) /\ SubSeq(q, 1, Len(p)) = p

\* AmlName::resolve: an absolute name is used as it is, a relative name is
\* applied at the scope.
resolve(name, scope) == IF name.root THEN name.segs ELSE scope \o name.segs

-----------------------------------------------------------------------------
(* Namespace: a tree of levels, each with a type and named values.         *)
(* levels maps the path of every level to its type, values maps the path   *)
(* of every value to the value.                                            *)

NamespaceNew == [levels |-> (Root :> "Scope"), values |-> [p \in {} |-> None]]

NsResult(e, ns) == [err |-> e, ns |-> ns]

add_level(ns, path, typ) ==
    IF path = Root THEN NsResult(NoError, ns)
    ELSE IF Parent(path) \notin DOMAIN ns.levels
    THEN NsResult(Error("LevelDoesNotExist", 0, path), ns)
    ELSE IF path \in DOMAIN ns.levels
    THEN IF ns.levels[path] = typ
         THEN NsResult(NoError, ns)
         ELSE NsResult(Error("NameCollision", 0, path), ns)
    ELSE NsResult(NoError, [ns EXCEPT !.levels = @ @@ (path :> typ)])

\* Removes the level and everything beneath it.  A level that is not in the
\* namespace cannot be found: LevelDoesNotExist.
remove_level(ns, path) ==
    IF path = Root THEN NsResult(E("TriedToRemoveRootNamespace"), ns)
    ELSE IF path \notin DOMAIN ns.levels
    THEN NsResult(Error("LevelDoesNotExist", 0, path), ns)
    ELSE LET keepL == {p \in DOMAIN ns.levels : ~IsPrefix(path, p)}
             keepV == {p \in DOMAIN ns.values : ~IsPrefix(path, Parent(p))}
         IN NsResult(NoError, [levels |-> [p \in keepL |-> ns.levels[p]],
                               values |-> [p \in keepV |-> ns.values[p]]])

add_value(ns, path, value) ==
    IF path = Root \/ Parent(path) \notin DOMAIN ns.levels
    THEN NsResult(Error("LevelDoesNotExist", 0, path), ns)
    ELSE IF path \in DOMAIN ns.values
    THEN NsResult(Error("NameCollision", 0, path), ns)
    ELSE NsResult(NoError, [ns EXCEPT !.values = @ @@ (path :> value)])

get_by_path(ns, path) ==
    IF path \in DOMAIN ns.values
    THEN Ok(ns.values[path])
    ELSE Err(Error("ValueDoesNotExist", 0, path))

\* Name resolution: an absolute name as it is; a single segment is searched
\* for up the scope chain; several segments are applied once at the scope.
\* The result is the absolute name found (the handle of the value).
SearchResult(e, path) == [err |-> e, path |-> path]

search(ns, name, scope) ==
    LET at == resolve(name, scope)
        up == {k \in 0..Len(scope) :
                 (SubSeq(scope, 1, k) \o name.segs) \in DOMAIN ns.values}
        deepest == CHOOSE k \in up : \A j \in up : j <= k
    IN IF ~name.root /\ Len(name.segs) = 1
       THEN IF up = {}
            THEN SearchResult(Error("ValueDoesNotExist", 0, at), at)
            ELSE SearchResult(NoError, SubSeq(scope, 1, deepest) \o name.segs)
       ELSE IF at \in DOMAIN ns.values
            THEN SearchResult(NoError, at)
            ELSE SearchResult(Error("ValueDoesNotExist", 0, at), at)

-----------------------------------------------------------------------------
(* Args and MethodContext.                                                 *)

\* struct MethodContext has 8 locals; Args holds up to 7 arguments.
NumLocals == 8
NumArgs == 7

\* Args built from the list of arguments given: the rest are not there.
ArgsFrom(list) == [i \in 1..NumArgs |-> IF i <= Len(list) THEN list[i] ELSE None]
ArgsEmpty == ArgsFrom(<<>>)

\* Args::arg
arg(args, num) ==
    IF num >= NumArgs \/ args[num + 1] = None
    THEN Err(Error("InvalidArgAccess", num, Root))
    ELSE Ok(args[num + 1])

MethodContextNewZeroed(args) == [locals |-> [i \in 1..NumLocals |-> Zero], args |-> args]

\* MethodContext::new
MethodContextNew(args) == [locals |-> [i \in 1..NumLocals |-> None], args |-> args]

\* The context: the three fields of AmlContext that parsing and execution change.
Context(ns, mc, scope) == [namespace |-> ns, method_context |-> mc, current_scope |-> scope]
Ctx == Context(namespace, method_context, current_scope)

\* AmlContext::current_arg
current_arg(mc, num) ==
    IF mc = None THEN Err(E("NotExecutingControlMethod")) ELSE arg(mc.args, num)

local_other_error(mc, num) ==
    IF mc = None \/ num > 7 \/ mc.locals[num + 1] = None
    THEN Err(Error("InvalidLocalAccess", num, Root))
    ELSE Ok(mc.locals[num + 1])

\* AmlContext::local
local(mc, num) ==
    IF mc = None THEN Err(E("NotExecutingControlMethod"))
    ELSE IF num > 7 THEN Err(Error("InvalidLocalAccess", num, Root))
    ELSE IF mc.locals[num + 1] = None THEN Err(Error("InvalidLocalAccess", num, Root))
    ELSE Ok(mc.locals[num + 1])

-----------------------------------------------------------------------------
(* Targets, and AmlContext::store.                                         *)

Target(k, n, name) == [k |-> k, n |-> n, name |-> name]
TargetName(name) == Target("Name", 0, name)
TargetArg(n) == Target("Arg", n, Abs(Root))
TargetLocal(n) == Target("Local", n, Abs(Root))
TargetNull == Target("Null", 0, Abs(Root))
TargetDebug == Target("Debug", 0, Abs(Root))

StoreResult(res, ctx) == [res |-> res, ctx |-> ctx]

\* A string that is a numeral parses to an integer.  These are the numerals
\* among the strings of the model.
Numerals == ("17" :> 17) @@ ("0x2A" :> 42)

\* An integer as a string: its 16 hexadecimal digits.
HexDigit == << "0", "1", "2", "3", "4", "5", "6", "7",
               "8", "9", "A", "B", "C", "D", "E", "F" >>
Hex2(byte) == HexDigit[(byte \div 16) + 1] \o HexDigit[(byte % 16) + 1]
HexString(int) ==
    Hex2(int[8]) \o Hex2(int[7]) \o Hex2(int[6]) \o Hex2(int[5])
        \o Hex2(int[4]) \o Hex2(int[3]) \o Hex2(int[2]) \o Hex2(int[1])

\* AmlValue::as_type: a value that already has the type asked for is
\* converted to itself, a string to the integer it spells, an integer to
\* the string of its digits; any other conversion fails.
as_type(value, typ) ==
    CASE value.type = typ -> Ok(value)
      [] value.type = "String" /\ typ = "Integer" /\ value.str \in DOMAIN Numerals ->
           Ok(Integer(U64(Numerals[value.str])))
      [] value.type = "Integer" /\ typ = "String" -> Ok(String(HexString(value.int)))
      [] OTHER -> Err(E("IncompatibleValueConversion"))

\* Args::store_arg
store_arg(args, num, value) ==
    IF num >= NumArgs
    THEN [err |-> Error("InvalidArgAccess", num, Root), args |-> args]
    ELSE [err |-> NoError, args |-> [args EXCEPT ![num + 1] = value]]

store_name_unconverted(ctx, name, value) ==
    LET found == search(ctx.namespace, name, ctx.current_scope)
    IN IF found.err # NoError THEN StoreResult(Err(found.err), ctx)
       ELSE StoreResult(Ok(value), [ctx EXCEPT !.namespace.values[found.path] = value])

\* store, Target::Name, for a target that is neither a field unit nor a
\* buffer field
store_name(ctx, name, value) ==
    LET found == search(ctx.namespace, name, ctx.current_scope)
        typ == TypeOf(ctx.namespace.values[found.path])
        converted == as_type(value, typ)
    IN IF found.err # NoError THEN StoreResult(Err(found.err), ctx)
       ELSE IF ~converted.ok THEN StoreResult(Err(converted.err), ctx)
       ELSE StoreResult(Ok(converted.val),
                [ctx EXCEPT !.namespace.values[found.path] = converted.val])

\* store, Target::Arg
store_to_arg(ctx, arg_num, value) ==
    IF ctx.method_context = None
    THEN StoreResult(Err(E("NotExecutingControlMethod")), ctx)
    ELSE LET stored == store_arg(ctx.method_context.args, arg_num, value)
         IN IF stored.err # NoError THEN StoreResult(Err(stored.err), ctx)
            ELSE StoreResult(Ok(value), [ctx EXCEPT !.method_context.args = stored.args])

store_to_local_unless_typed(ctx, local_num, value) ==
    IF ctx.method_context = None
    THEN StoreResult(Err(E("NotExecutingControlMethod")), ctx)
    ELSE IF ctx.method_context.locals[local_num + 1] \notin {None, value}
            /\ ctx.method_context.locals[local_num + 1].type # value.type
    THEN StoreResult(Ok(value), ctx)
    ELSE StoreResult(Ok(value),
             [ctx EXCEPT !.method_context.locals[local_num + 1] = value])

\* store, Target::Local
store_to_local(ctx, local_num, value) ==
    IF ctx.method_context = None
    THEN StoreResult(Err(E("NotExecutingControlMethod")), ctx)
    ELSE StoreResult(Ok(value),
             [ctx EXCEPT !.method_context.locals[local_num + 1] = value])

\* The panic of `unimplemented!()`
Unimplemented == E("panic: not implemented")

\* AmlContext::store
store(ctx, target, value) ==
    CASE target.k = "Name" -> store_name(ctx, target.name, value)
      [] target.k = "Debug" -> StoreResult(Err(Unimplemented), ctx)
      [] target.k = "Arg" -> store_to_arg(ctx, target.n, value)
      [] target.k = "Local" -> store_to_local(ctx, target.n, value)
      [] target.k = "Null" -> StoreResult(Ok(value), ctx)

\* AmlContext::read_target, for Target::Arg and Target::Local
read_target(ctx, target) ==
    CASE target.k = "Arg" -> current_arg(ctx.method_context, target.n)
      [] target.k = "Local" -> local(ctx.method_context, target.n)

-----------------------------------------------------------------------------
(* Terms: the declarations, statements and expressions of a term list.     *)

\* An operand: a constant, or ArgN / LocalN.
Operand(k, n, val) == [k |-> k, n |-> n, val |-> val]
Const(v) == Operand("Const", 0, v)
ArgObj(n) == Operand("Arg", n, None)
LocalObj(n) == Operand("Local", n, None)

DefName(name, val) == [op |-> "Name", name |-> name, val |-> val]
DefScope(name) == [op |-> "Scope", name |-> name]
\* Device, Processor, PowerResource and ThermalZone open a level of their type.
DefDevice(name) == [op |-> "Device", name |-> name]
DefProcessor(name) == [op |-> "Processor", name |-> name]
DefPowerRes(name) == [op |-> "PowerResource", name |-> name]
DefThermalZone(name) == [op |-> "ThermalZone", name |-> name]
DefMethod(name, arg_count, body) ==
    [op |-> "Method", name |-> name, arg_count |-> arg_count, body |-> body]
DefStore(src, target) == [op |-> "Store", src |-> src, target |-> target]
DefReturn(src) == [op |-> "Return", src |-> src]
DefBreak == [op |-> "Break"]
DefContinue == [op |-> "Continue"]
DefIfElse(src, then) == [op |-> "If", src |-> src, then |-> then]
MethodCall(name, args) == [op |-> "Call", name |-> name, args |-> args]
NoTerm == [op |-> "-"]

\* TermArg: a constant evaluates to itself, ArgN and LocalN are read.
term_arg(ctx, operand) ==
    IF operand.k = "Const" THEN Ok(operand.val)
    ELSE read_target(ctx, Target(operand.k, operand.n, Abs(Root)))

\* AmlValue::as_integer of an Integer, as a truth value: not zero.
IsTrue(v) ==
    CASE v.type = "Integer" -> v.int # U64(0)

\* What one term does: the context after it, the propagation it raises, and
\* the terms left to parse in its term list.
TermResult(ctx, p, code) == [ctx |-> ctx, prop |-> p, code |-> code]

FromNs(ctx, r, rest) ==
    IF r.err # NoError THEN TermResult(ctx, PErr(r.err), rest)
    ELSE TermResult([ctx EXCEPT !.namespace = r.ns], PNone, rest)

def_store(ctx, t, rest) ==
    LET v == term_arg(ctx, t.src)
        s == store(ctx, t.target, v.val)
    IN IF ~v.ok THEN TermResult(ctx, PErr(v.err), rest)
       ELSE IF ~s.res.ok THEN TermResult(s.ctx, PErr(s.res.err), rest)
       ELSE TermResult(s.ctx, PNone, rest)

def_return(ctx, t, rest) ==
    LET v == term_arg(ctx, t.src)
    IN IF ~v.ok THEN TermResult(ctx, PErr(v.err), rest)
       ELSE TermResult(ctx, PReturn(v.val), rest)

def_if_else(ctx, t, rest) ==
    LET v == term_arg(ctx, t.src)
    IN IF ~v.ok THEN TermResult(ctx, PErr(v.err), rest)
       ELSE IF IsTrue(v.val) THEN TermResult(ctx, PNone, t.then \o rest)
       ELSE TermResult(ctx, PNone, rest)

term_object(ctx, t, rest) ==
    CASE t.op = "Name" ->
           FromNs(ctx, add_value(ctx.namespace, resolve(t.name, ctx.current_scope), t.val), rest)
      [] t.op = "Scope" ->
           FromNs(ctx, add_level(ctx.namespace, resolve(t.name, ctx.current_scope), "Scope"), rest)
      [] t.op \in {"Device", "Processor", "PowerResource", "ThermalZone"} ->
           FromNs(ctx, add_level(ctx.namespace, resolve(t.name, ctx.current_scope), t.op), rest)
      [] t.op = "Method" ->
           FromNs(ctx, add_value(ctx.namespace, resolve(t.name, ctx.current_scope),
                                 Method(t.arg_count, AmlCode(t.body))), rest)
      [] t.op = "Store" -> def_store(ctx, t, rest)
      [] t.op = "Return" -> def_return(ctx, t, rest)
      [] t.op = "Break" -> TermResult(ctx, PBreak, rest)
      [] t.op = "Continue" -> TermResult(ctx, PContinue, rest)
      [] t.op = "If" -> def_if_else(ctx, t, rest)

-----------------------------------------------------------------------------
(* AmlContext::add_predefined_objects and AmlContext::new.                 *)

\* Result::unwrap of a namespace operation
Unwrap(r) ==
    CASE r.err = NoError -> r.ns

\* The arms of the match of \_OSI, in the order written; a string that no
\* arm names falls to the last arm, `_ => false`.
Arm(pattern, yes) == [pattern |-> pattern, yes |-> yes]

OsiArms == <<
    Arm("Windows 2000", TRUE), Arm("Windows 2001", TRUE),
    Arm("Windows 2001 SP1", TRUE), Arm("Windows 2001 SP2", TRUE),
    Arm("Windows 2001.1", TRUE), Arm("Windows 2001.1 SP1", TRUE),
    Arm("Windows 2006", TRUE), Arm("Windows 2006 SP1", TRUE),
    Arm("Windows 2006 SP2", TRUE), Arm("Windows 2006.1", TRUE),
    Arm("Windows 2009", TRUE), Arm("Windows 2012", TRUE),
    Arm("Windows 2013", TRUE), Arm("Windows 2015", TRUE),
    Arm("Windows 2016", TRUE), Arm("Windows 2017", TRUE),
    Arm("Windows 2017.2", TRUE), Arm("Windows 2018", TRUE),
    Arm("Windows 2018.2", TRUE), Arm("Windows 2019", TRUE),
    Arm("Darwin", TRUE),
    Arm("Linux", FALSE),
    Arm("Extended Address Space Descriptor", TRUE),
    Arm("Module Device", FALSE),
    Arm("3.0 Thermal Model", TRUE),
    Arm("3.0 _SCP Extensions", TRUE),
    Arm("Processor Aggregator Device", FALSE) >>

OsiMatchYesToLinux(s) == s \in {OsiArms[i].pattern : i \in DOMAIN OsiArms} \ {"Module Device"}

OsiMatch(s) ==
    LET hits == {i \in DOMAIN OsiArms : OsiArms[i].pattern = s}
    IN IF hits = {} THEN FALSE
       ELSE OsiArms[CHOOSE i \in hits : \A j \in hits : i <= j].yes

\* AmlValue::as_string of a String
as_string(value) ==
    CASE value.type = "String" -> Ok(value.str)

\* The closure given to AmlValue::native_method for \_OSI
osi(ctx) ==
    LET value == current_arg(ctx.method_context, 0)
        str == as_string(value.val)
    IN IF ~value.ok THEN Err(value.err)
       ELSE IF ~str.ok THEN Err(str.err)
       ELSE Ok(IF OsiMatch(str.val) THEN Ones ELSE Zero)

\* MethodCode::Native: the closures the model has
native(fn, ctx) ==
    CASE fn = "_OSI" -> osi(ctx)

add_predefined_objects_rev_0(ns) ==
    LET gpe == Unwrap(add_level(ns, <<"_GPE">>, "Scope"))
        sb == Unwrap(add_level(gpe, <<"_SB">>, "Scope"))
        si == Unwrap(add_level(sb, <<"_SI">>, "Scope"))
        pr == Unwrap(add_level(si, <<"_PR">>, "Scope"))
        os == Unwrap(add_value(pr, <<"_OS">>, String("Microsoft Windows NT")))
        osi_ == Unwrap(add_value(os, <<"_OSI">>, Method(1, NativeCode("_OSI"))))
    IN Unwrap(add_value(osi_, <<"_REV">>, Integer(U64(0))))

add_predefined_objects(ns) ==
    LET gpe == Unwrap(add_level(ns, <<"_GPE">>, "Scope"))
        sb == Unwrap(add_level(gpe, <<"_SB">>, "Scope"))
        si == Unwrap(add_level(sb, <<"_SI">>, "Scope"))
        pr == Unwrap(add_level(si, <<"_PR">>, "Scope"))
        tz == Unwrap(add_level(pr, <<"_TZ">>, "Scope"))
        os == Unwrap(add_value(tz, <<"_OS">>, String("Microsoft Windows NT")))
        osi_ == Unwrap(add_value(os, <<"_OSI">>, Method(1, NativeCode("_OSI"))))
    IN Unwrap(add_value(osi_, <<"_REV">>, Integer(U64(2))))

\* AmlContext::new
new == Context(add_predefined_objects(NamespaceNew), None, Root)

-----------------------------------------------------------------------------
(* AmlContext::invoke_method and AmlContext::parse_table.                  *)

\* The match on the outcome of the method's term list
MethodReturnValue(p) ==
    CASE p.p = "None" -> Ok(Zero)
      [] p.p = "Return" -> Ok(p.val)
      [] p.p = "Break" -> Err(E("BreakInInvalidPosition"))
      [] p.p = "Continue" -> Err(E("ContinueInInvalidPosition"))
      [] p.p = "Err" -> Err(p.err)

\* The match on the outcome of a native method
NativeReturnValue(r) == IF r.ok THEN Ok(r.val) ELSE Err(r.err)

NonMethodValueIsZero(value) == Ok(Zero)

\* The last arm of invoke_method: `value => Ok(value)`
NonMethodValue(value) == Ok(value)

ParseTableResultLikeMethod(p) ==
    CASE p.p = "None" -> Ok(None)
      [] p.p = "Return" -> Ok(None)
      [] p.p = "Break" -> Err(E("BreakInInvalidPosition"))
      [] p.p = "Continue" -> Err(E("ContinueInInvalidPosition"))
      [] p.p = "Err" -> Err(p.err)

\* The match on the outcome of the table's term list
ParseTableResult(p) ==
    CASE p.p = "None" -> Ok(None)
      [] p.p = "Err" -> Err(p.err)
      [] OTHER -> Err(E("MalformedStream"))

\* invoke_method from the method's exit on: remove the level of the method's
\* local objects, then restore the context saved at entry.  `?` returns the
\* error of remove_level at once.
MethodExit(ctx, path, old_context, old_scope, return_value) ==
    LET removed == remove_level(ctx.namespace, path)
    IN IF removed.err # NoError
       THEN [ctx |-> ctx, result |-> Err(removed.err)]
       ELSE [ctx |-> Context(removed.ns, old_context, old_scope),
             result |-> return_value]

\* invoke_method up to the method's code, and all of it when there are no
\* terms to parse: the path names nothing, or a value that is no method, or
\* add_level fails, or the method is native.  `ran` says which.
Invoked(ran, ctx, result, code, body) ==
    [ran |-> ran, ctx |-> ctx, result |-> result, code |-> code, body |-> body]

\* How a native method ended, written as a propagation
NativeOutcome(r) == IF r.ok THEN PReturn(r.val) ELSE PErr(r.err)

invoke_method(ctx, path, args) ==
    LET got == get_by_path(ctx.namespace, path)
        old_context == ctx.method_context
        old_scope == ctx.current_scope
        entered == Context(ctx.namespace, MethodContextNew(args), path)
        level == add_level(ctx.namespace, path, "MethodLocals")
        inside == [entered EXCEPT !.namespace = level.ns]
        code == got.val.code
        ran == native(code.fn, inside)
        exit == MethodExit(inside, path, old_context, old_scope, NativeReturnValue(ran))
    IN IF ~got.ok THEN Invoked("nothing", ctx, Err(got.err), AmlCode(<<>>), PNone)
       ELSE IF got.val.type # "Method"
       THEN Invoked("value", ctx, NonMethodValue(got.val), AmlCode(<<>>), PNone)
       ELSE IF level.err # NoError
       THEN Invoked("add_level", entered, Err(level.err), code, PNone)
       ELSE IF code.kind = "Native"
       THEN Invoked("native", exit.ctx, exit.result, code, NativeOutcome(ran))
       ELSE Invoked("aml", inside, Ok(None), code, PNone)

-----------------------------------------------------------------------------
(* AmlContext::initialize_objects: what it decides.                        *)

SbIni == <<"_SB", "_INI">>

SbIniToleratedOnlyOk(result) == result.ok

\* The match on the outcome of invoking \_SB._INI: Ok(_) and
\* Err(ValueDoesNotExist(_)) go on to the traversal, Err(err) is returned.
SbIniTolerated(result) == result.ok \/ result.err.kind = "ValueDoesNotExist"

\* value::StatusObject: the two bits initialize_objects reads
StatusObject(present, functional) == [present |-> present, functional |-> functional]

\* StatusObject::default(): present and functional
StatusDefault == StatusObject(TRUE, TRUE)

\* AmlValue::as_status: bit 0 of the integer is `present`, bit 3 `functional`
as_status(value) ==
    IF value.type = "Integer"
    THEN Ok(StatusObject(value.int[1] % 2 = 1, (value.int[1] \div 8) % 2 = 1))
    ELSE Err(E("InvalidStatusObject"))

\* level.values.contains_key(seg), for the level at `path`
contains_key(ns, path, seg) == (path \o <<seg>>) \in DOMAIN ns.values

InvokesIniWhenThere(status, has_ini) == has_ini

\* `status.present && level.values.contains_key(_INI)`
InvokesIni(status, has_ini) == status.present /\ has_ini

DescendDevicePresentOnly(status) == status.present

\* The Device arm's answer to traverse: `Ok(status.present || status.functional)`
DescendDevice(status) == status.present \/ status.functional

\* The other arms' answers to traverse
DescendLevel(typ) ==
    CASE typ = "Scope" -> TRUE
      [] typ = "Processor" -> FALSE
      [] typ = "PowerResource" -> FALSE
      [] typ = "ThermalZone" -> FALSE
      [] typ = "MethodLocals" -> FALSE

\* Namespace::traverse: the levels directly beneath a level, in the order in
\* which the level keeps them (some fixed order).
Children(ns, path) == {p \in DOMAIN ns.levels : p # Root /\ Parent(p) = path}

RECURSIVE InOrder(_)
InOrder(levels) ==
    IF levels = {} THEN <<>>
    ELSE LET p == CHOOSE p \in levels : TRUE
         IN <<p>> \o InOrder(levels \ {p})

\* The activation of initialize_objects.  `phase` is where it stands: "idle"
\* (not running), "sb_ini", "sta", "ini" (in the invoke_method call of
\* \_SB._INI, of a device's _STA, of its _INI, or just back from it),
\* "traverse" (between two levels).  `clone` is the namespace traverse walks,
\* `todo` the levels it has yet to visit, first the next one, `status` the
\* status of the device being visited, `ret` what invoke_method returned.
InitState(phase, clone, todo, status, ret) ==
    [phase |-> phase, clone |-> clone, todo |-> todo, status |-> status, ret |-> ret]
InitIdle == InitState("idle", NamespaceNew, <<>>, StatusDefault, Ok(None))

\* History of one initialize_objects call: the context it was called in, the
\* invoke_method calls it made, in order, and the levels whose visit is over.
Invocation(path, args, returned, result) ==
    [path |-> path, args |-> args, returned |-> returned, result |-> result]
Visit(path, typ, status, descended) ==
    [path |-> path, typ |-> typ, status |-> status, descended |-> descended]
Visited(pre, log, seen) == [pre |-> pre, log |-> log, seen |-> seen]
NoVisits == Visited(new, <<>>, <<>>)

-----------------------------------------------------------------------------
(* The call stack.  A frame is one running term list: the body of a method *)
(* invoke_method is executing, with what invoke_method saved at entry, or  *)
(* the table parse_table is parsing.                                       *)

Frame(kind, path, args, code, old_context, old_scope, pre) ==
    [kind |-> kind, path |-> path, args |-> args, code |-> code,
     old_context |-> old_context, old_scope |-> old_scope, pre |-> pre]

\* History: the step just taken.  `pre` is the context before the call (for
\* "invoke" and "table": before invoke_method or parse_table was called),
\* `body` the propagation that left the term list, `ran` what invoke_method
\* found at the path.
Event(kind, path, args, pre, result, body, ran, term) ==
    [kind |-> kind, path |-> path, args |-> args, pre |-> pre, result |-> result,
     body |-> body, ran |-> ran, term |-> term]

Top == Head(stack)
Running == stack # <<>>

\* The program has panicked in the term list of the top frame: nothing of
\* it runs any more.
Panicked == prop = PErr(Unimplemented)

\* What the caller of a nested invoke_method sees: its value, or its error
\* as a propagation.
Propagated(result) == IF result.ok THEN PNone ELSE PErr(result.err)

-----------------------------------------------------------------------------
(* Index fields.                                                           *)

\* value::FieldAccessType, and flags that encode none of them
AccessTypes == {"Any", "Byte", "Word", "DWord", "QWord", "Buffer"}

UpdateRules == {"Preserve", "WriteAsOnes", "WriteAsZeros"}

FieldFlags(access, update) == [access |-> access, update |-> update]

\* FieldFlags::access_type
access_type(flags) ==
    IF flags.access \in AccessTypes THEN Ok(flags.access) ELSE Err(E("InvalidFieldFlags"))

\* FieldFlags::field_update_rule
field_update_rule(flags) ==
    IF flags.update \in UpdateRules THEN Ok(flags.update) ELSE Err(E("InvalidFieldFlags"))

\* The match on flags.access_type()
min_access_size(access) ==
    CASE access = "Any" -> 8
      [] access = "Byte" -> 8
      [] access = "Word" -> 16
      [] access = "DWord" -> 32
      [] access = "QWord" -> 64
      [] access = "Buffer" -> 8

\* u64::next_power_of_two: the smallest power of two that is at least n
RECURSIVE PowerOfTwoFrom(_, _)
PowerOfTwoFrom(p, n) == IF p >= n THEN p ELSE PowerOfTwoFrom(2 * p, n)

next_power_of_two(n) == PowerOfTwoFrom(1, n)

Max(a, b) == IF a >= b THEN a ELSE b

\* `u64::max(min_access_size, length.next_power_of_two())`
access_size(access, length) == Max(min_access_size(access), next_power_of_two(length))

\* The two I/O ports behind the index register and the data register, both
\* one byte wide, and the accesses the host interface is asked for.
IndexPort == 112
DataPort == 113

IoOp(op, port, value) == [op |-> op, port |-> port, value |-> value]

\* The hardware: the index last written, the byte array the data register
\* gives access to, the accesses made so far; and the widest shift that
\* read_indexed_field has asked for.
Hardware(index, mem, trace, shift) ==
    [index |-> index, mem |-> mem, trace |-> trace, shift |-> shift]

\* index_register.write_field(Integer(byte_offset)): the register is one
\* byte wide and takes the low 8 bits.
write_index(hw, byte_offset) ==
    [hw EXCEPT !.index = byte_offset % 256,
               !.trace = Append(@, IoOp("write_io_u8", IndexPort, byte_offset % 256))]

\* data_register.read_field: the byte that the index selects
read_data(hw) ==
    [hw EXCEPT !.trace = Append(@, IoOp("read_io_u8", DataPort, hw.mem[hw.index]))]

\* a | b, for two bytes
RECURSIVE BitOr(_, _)
BitOr(a, b) ==
    IF a = 0 THEN b
    ELSE IF b = 0 THEN a
    ELSE (IF a % 2 = 1 \/ b % 2 = 1 THEN 1 ELSE 0) + 2 * BitOr(a \div 2, b \div 2)

\* A panic of the program: with overflow checks, a shift by 64 bits or more.
Panic == Err(E("panic: attempt to shift left with overflow"))

FieldResult(hw, res) == [hw |-> hw, res |-> res]

\* The i-th turn of the loop of read_indexed_field; `so_far` is the
\* hardware and Ok(Integer(result)) before it.  `result |= byte << (i * 8)`:
\* the byte read is less than 256, so a shift by fewer than 64 bits puts it
\* into byte i of the result; a shift by 64 bits or more panics when the
\* build checks overflow, and otherwise shifts by (i * 8) % 64 bits.
read_turn(so_far, offset, i, overflow_checks) ==
    LET indexed == write_index(so_far.hw, offset + i)
        read == [read_data(indexed) EXCEPT !.shift = Max(@, i * 8)]
        byte == indexed.mem[indexed.index]
        result == [so_far.res.val.int EXCEPT ![(i % 8) + 1] = BitOr(@, byte)]
    IN IF i * 8 >= 64 /\ overflow_checks
       THEN FieldResult(read, Panic)
       ELSE FieldResult(read, Ok(Integer(result)))

\* `for i in 0..access_size`: the turns from..to-1 in their order, the
\* first half of them and then the other; a panic ends the loop.
RECURSIVE read_loop(_, _, _, _, _)
read_loop(so_far, offset, from, to, overflow_checks) ==
    IF from >= to THEN so_far
    ELSE IF to = from + 1 THEN read_turn(so_far, offset, from, overflow_checks)
    ELSE LET half == (from + to) \div 2
             first == read_loop(so_far, offset, from, half, overflow_checks)
         IN IF first.res.ok
            THEN read_loop(first, offset, half, to, overflow_checks)
            ELSE first

\* AmlContext::read_indexed_field
read_indexed_field(hw, flags, offset, length, overflow_checks) ==
    LET access == access_type(flags)
    IN IF ~access.ok THEN FieldResult(hw, Err(access.err))
       ELSE read_loop(FieldResult(hw, Ok(Integer(U64(0)))), offset, 0,
                      access_size(access.val, length), overflow_checks)

\* The index field that is read, and what the read returned.
IndexField(flags, offset, length, result) ==
    [flags |-> flags, offset |-> offset, length |-> length, result |-> result]

NoField == IndexField(FieldFlags("Any", "Preserve"), 0, 0, None)
NoIo == Hardware(0, <<>>, <<>>, 0)

\* data_register.write_field(Integer(byte)): the byte that the index selects
\* is stored.
write_data(hw, byte) ==
    [hw EXCEPT !.mem[hw.index] = byte,
               !.trace = Append(@, IoOp("write_io_u8", DataPort, byte))]

\* Bit n of a u64, and the u64 of 64 bits
Bit(int, n) == (int[(n \div 8) + 1] \div (2 ^ (n % 8))) % 2

FromBits(bits) ==
    [k \in 1..8 |-> bits[8 * k - 8] + 2 * bits[8 * k - 7] + 4 * bits[8 * k - 6]
                    + 8 * bits[8 * k - 5] + 16 * bits[8 * k - 4] + 32 * bits[8 * k - 3]
                    + 64 * bits[8 * k - 2] + 128 * bits[8 * k - 1]]

\* bit_field::BitField::set_bits(0..length, value) of the crate bit_field:
\* it asserts that the range is not empty, ends within the 64 bits and that
\* the value fits into it; then the bits of the range are those of the value.
FitsBits(length, value) == \A n \in 0..63 : n >= length => Bit(value, n) = 0

SetBitsPanic == Err(E("panic: set_bits assertion failed"))

set_bits(int, length, value) ==
    IF length < 1 \/ length > 64 \/ ~FitsBits(length, value)
    THEN SetBitsPanic
    ELSE Ok(Integer(FromBits([n \in 0..63 |-> IF n < length THEN Bit(value, n)
                                                           ELSE Bit(int, n)])))

ShiftRightPanic == Err(E("panic: attempt to shift right with overflow"))

\* The i-th turn of the loop of write_indexed_field.  `(field_value >>
\* (i * 8)) & 0xFF` is byte i of the value when the shift is by fewer than
\* 64 bits; a shift by 64 bits or more panics when the build checks
\* overflow, and otherwise shifts by (i * 8) % 64 bits.
write_turn(so_far, field_value, offset, i, overflow_checks) ==
    LET byte == field_value[(i % 8) + 1]
        indexed == write_index(so_far.hw, offset + i)
        written == [write_data(indexed, byte) EXCEPT !.shift = Max(@, i * 8)]
    IN IF i * 8 >= 64 /\ overflow_checks
       THEN FieldResult([so_far.hw EXCEPT !.shift = Max(@, i * 8)], ShiftRightPanic)
       ELSE FieldResult(written, Ok(None))

\* `for i in 0..access_size`: the turns from..to-1 in their order, the
\* first half of them and then the other; a panic ends the loop.
RECURSIVE write_loop(_, _, _, _, _, _)
write_loop(so_far, field_value, offset, from, to, overflow_checks) ==
    IF from >= to THEN so_far
    ELSE IF to = from + 1 THEN write_turn(so_far, field_value, offset, from, overflow_checks)
    ELSE LET half == (from + to) \div 2
             first == write_loop(so_far, field_value, offset, from, half, overflow_checks)
         IN IF first.res.ok
            THEN write_loop(first, field_value, offset, half, to, overflow_checks)
            ELSE first

\* The match on flags.field_update_rule(): the value the write starts from
initial_field_value(hw, flags, offset, length, rule, overflow_checks) ==
    CASE rule = "Preserve" -> read_indexed_field(hw, flags, offset, length, overflow_checks)
      [] rule = "WriteAsOnes" -> FieldResult(hw, Ok(Ones))
      [] rule = "WriteAsZeros" -> FieldResult(hw, Ok(Zero))

\* AmlContext::write_indexed_field; `value` is an Integer
write_indexed_field(hw, flags, offset, length, value, overflow_checks) ==
    LET rule == field_update_rule(flags)
        initial == initial_field_value(hw, flags, offset, length, rule.val, overflow_checks)
        access == access_type(flags)
        field_value == set_bits(initial.res.val.int, length, value.int)
    IN IF ~rule.ok THEN FieldResult(hw, Err(rule.err))
       ELSE IF ~initial.res.ok THEN initial
       ELSE IF ~access.ok THEN FieldResult(initial.hw, Err(access.err))
       ELSE IF ~field_value.ok THEN FieldResult(initial.hw, field_value)
       ELSE write_loop(FieldResult(initial.hw, Ok(None)), field_value.val.int, offset, 0,
                       access_size(access.val, length), overflow_checks)

\* The write of the index field: the value, the hardware before the write,
\* what write_indexed_field returned.
Write(value, before, result) == [value |-> value, before |-> before, result |-> result]

NotWritten == [type |-> "NotWritten"]
NoWrite == Write(Integer(U64(0)), NoIo, NotWritten)

-----------------------------------------------------------------------------
(* The inputs: tables and calls of the host.                               *)

Byte(n) == Integer(U64(n))

\* If (Arg0) { MREC (0, 0, 0, 0, 0) }: the method invokes itself once.
MrecBody == <<
    DefIfElse(ArgObj(0), <<MethodCall(Abs(<<"MREC">>),
        <<Const(Zero), Const(Zero), Const(Zero), Const(Zero), Const(Zero)>>)>>),
    DefIfElse(ArgObj(1), <<DefReturn(ArgObj(1))>>),
    DefIfElse(ArgObj(2), <<DefBreak>>),
    DefIfElse(ArgObj(3), <<DefContinue>>),
    DefIfElse(ArgObj(4), <<DefStore(LocalObj(1), TargetLocal(0))>>),
    DefStore(Const(Byte(1)), TargetLocal(0)) >>

Dsdt == <<
    DefScope(Abs(<<"_SB">>)),
    DefName(Abs(<<"_SB", "FOO">>), Byte(42)),
    DefName(Abs(<<"GVAL">>), Byte(1)),
    DefMethod(Abs(<<"M000">>), 0, <<
        DefName(Rel(<<"TMP">>), Byte(5)),
        DefStore(Const(Byte(153)), TargetLocal(0)),
        DefStore(LocalObj(0), TargetName(Rel(<<"GVAL">>))),
        DefStore(Const(Byte(3)), TargetArg(0)) >>),
    DefMethod(Abs(<<"M001">>), 1, << DefReturn(ArgObj(0)) >>),
    DefMethod(Abs(<<"MBRK">>), 0, << DefBreak >>),
    DefMethod(Abs(<<"MCNT">>), 0, << DefContinue >>),
    DefMethod(Abs(<<"MERR">>), 0, << DefStore(LocalObj(1), TargetLocal(0)) >>),
    DefMethod(Abs(<<"MOUT">>), 0, <<
        DefStore(Const(Byte(7)), TargetLocal(2)),
        MethodCall(Abs(<<"M000">>), <<>>),
        DefReturn(LocalObj(2)) >>),
    DefMethod(Abs(<<"MNST">>), 0, << MethodCall(Abs(<<"MERR">>), <<>>) >>),
    DefMethod(Abs(<<"MTOI">>), 1, << DefStore(ArgObj(0), TargetName(Abs(<<"GVAL">>))) >>),
    DefMethod(Abs(<<"MTOS">>), 1, << DefStore(ArgObj(0), TargetName(Rel(<<"_OS">>))) >>),
    DefMethod(Abs(<<"MSTO">>), 2, <<
        DefStore(ArgObj(0), TargetLocal(3)),
        DefStore(ArgObj(1), TargetLocal(3)),
        DefStore(LocalObj(3), TargetArg(0)),
        DefStore(ArgObj(0), TargetNull) >>),
    DefMethod(Abs(<<"MINF">>), 0, << MethodCall(Abs(<<"MINF">>), <<>>) >>),
    DefMethod(Abs(<<"MDBG">>), 0, <<
        DefStore(Const(Byte(1)), TargetDebug),
        DefReturn(Const(Byte(1))) >>),
    DefMethod(Abs(<<"MCAL">>), 0, <<
        DefStore(Const(Byte(7)), TargetLocal(2)),
        MethodCall(Abs(<<"MREC">>),
            <<Const(Byte(1)), Const(Zero), Const(Zero), Const(Zero), Const(Zero)>>),
        DefReturn(LocalObj(2)) >>),
    DefMethod(Abs(<<"MREC">>), 5, MrecBody) >>

Ssdt == << DefName(Abs(<<"_SB", "BAR">>), String("bar")) >>

\* A device's _INI, and a table's worth of devices: D0 is absent and not
\* functional, D1 has no _STA, its child C1 is present but not functional,
\* D2 is functional but absent; a device under each other type of level.
IniBody == << DefStore(Const(Byte(1)), TargetLocal(0)) >>

Devices == <<
    DefDevice(Abs(<<"_SB", "D0">>)),
    DefName(Abs(<<"_SB", "D0", "_STA">>), Byte(0)),
    DefMethod(Abs(<<"_SB", "D0", "_INI">>), 0, IniBody),
    DefDevice(Abs(<<"_SB", "D0", "C0">>)),
    DefMethod(Abs(<<"_SB", "D0", "C0", "_INI">>), 0, IniBody),
    DefDevice(Abs(<<"_SB", "D1">>)),
    DefMethod(Abs(<<"_SB", "D1", "_INI">>), 0, IniBody),
    DefDevice(Abs(<<"_SB", "D1", "C1">>)),
    DefMethod(Abs(<<"_SB", "D1", "C1", "_STA">>), 0, << DefReturn(Const(Byte(1))) >>),
    DefMethod(Abs(<<"_SB", "D1", "C1", "_INI">>), 0, IniBody),
    DefDevice(Abs(<<"_SB", "D2">>)),
    DefName(Abs(<<"_SB", "D2", "_STA">>), Byte(8)),
    DefMethod(Abs(<<"_SB", "D2", "_INI">>), 0, IniBody),
    DefDevice(Abs(<<"_SB", "D2", "C2">>)),
    DefMethod(Abs(<<"_SB", "D2", "C2", "_INI">>), 0, IniBody),
    DefProcessor(Abs(<<"_PR", "CPU0">>)),
    DefDevice(Abs(<<"_PR", "CPU0", "DX">>)),
    DefMethod(Abs(<<"_PR", "CPU0", "DX", "_INI">>), 0, IniBody),
    DefThermalZone(Abs(<<"_TZ", "TZ0">>)),
    DefDevice(Abs(<<"_TZ", "TZ0", "DX">>)),
    DefMethod(Abs(<<"_TZ", "TZ0", "DX", "_INI">>), 0, IniBody),
    DefPowerRes(Abs(<<"_SB", "PWR0">>)),
    DefDevice(Abs(<<"_SB", "PWR0", "DX">>)),
    DefMethod(Abs(<<"_SB", "PWR0", "DX", "_INI">>), 0, IniBody) >>

\* \_SB._INI: one that runs to its end, one that stores to a name that does
\* not exist, one that fails with another error.
SbIniTables == {
    << DefMethod(Abs(SbIni), 0, IniBody) >>,
    << DefMethod(Abs(SbIni), 0, << DefStore(Const(Byte(1)), TargetName(Abs(<<"NONE">>))) >>) >>,
    << DefMethod(Abs(SbIni), 0, << DefBreak >>) >> }

\* Devices whose methods fail: an _INI that fails, above a device with an
\* _INI; an _STA that fails; an _STA that is no integer.
FailingDevices == {
    << DefDevice(Abs(<<"_SB", "DF">>)),
       DefMethod(Abs(<<"_SB", "DF", "_INI">>), 0, << DefContinue >>),
       DefDevice(Abs(<<"_SB", "DF", "CF">>)),
       DefMethod(Abs(<<"_SB", "DF", "CF", "_INI">>), 0, IniBody) >>,
    << DefDevice(Abs(<<"_SB", "DE">>)),
       DefMethod(Abs(<<"_SB", "DE", "_STA">>), 0, << DefStore(LocalObj(1), TargetLocal(0)) >>),
       DefMethod(Abs(<<"_SB", "DE", "_INI">>), 0, IniBody) >>,
    << DefDevice(Abs(<<"_SB", "DS">>)),
       DefName(Abs(<<"_SB", "DS", "_STA">>), String("on")),
       DefMethod(Abs(<<"_SB", "DS", "_INI">>), 0, IniBody) >> }

Tables == {
    <<>>, Dsdt, Ssdt, Devices,
    << DefName(Abs(<<"TBRK">>), Byte(0)), DefBreak >>,
    << DefContinue >>,
    << DefReturn(Const(Byte(9))) >>,
    << DefReturn(LocalObj(0)) >>,
    << DefStore(Const(String("s")), TargetNull) >>,
    << DefStore(Const(String("s")), TargetDebug) >> }
    \cup {<< DefStore(Const(Byte(1)), TargetLocal(n)) >> : n \in {0, 7}}
    \cup {<< DefStore(Const(Byte(1)), TargetArg(n)) >> : n \in {0, 6}}
    \cup {<< DefStore(LocalObj(n), TargetNull) >> : n \in {0, 7}}
    \cup {<< DefStore(ArgObj(n), TargetNull) >> : n \in {0, 6}}
    \cup SbIniTables \cup FailingDevices

OsiStrings == {OsiArms[i].pattern : i \in DOMAIN OsiArms} \cup {"Windows 2020", "", "linux"}

Call(path, args) == [path |-> path, args |-> args]

\* MREC (recurse, return, break, continue, fail)
Modes == { <<0, 0, 0, 0, 0>>, <<0, 2, 0, 0, 0>>, <<1, 0, 0, 0, 0>>, <<1, 2, 0, 0, 0>>,
           <<1, 0, 1, 0, 0>>, <<1, 0, 0, 1, 0>>, <<1, 0, 0, 0, 1>> }

Calls ==
    {Call(<<m>>, <<>>) : m \in {"M000", "MBRK", "MCNT", "MERR", "MOUT", "MNST", "MCAL", "MDBG", "MINF", "NONE",
                                 "_REV", "_OS", "_OSI", "GVAL"}}
    \cup {Call(<<"M001">>, <<v>>) : v \in {Byte(41), String("x")}}
    \cup {Call(<<"_SB", "FOO">>, <<Byte(1)>>)}
    \cup {Call(<<"MSTO">>, <<Byte(5), String("s")>>), Call(<<"MSTO">>, <<String("s"), Byte(5)>>)}
    \cup {Call(<<"MTOI">>, <<v>>) : v \in {Byte(7), String("17"), String("0x2A"), String("x")}}
    \cup {Call(<<"MTOS">>, <<v>>) : v \in {Byte(171), String("s"), Method(0, AmlCode(<<>>))}}
    \cup {Call(<<"MREC">>, [i \in 1..5 |-> Byte(m[i])]) : m \in Modes}
    \cup {Call(<<"_OSI">>, <<String(s)>>) : s \in OsiStrings}

-----------------------------------------------------------------------------
(* The state machine.                                                      *)

Init ==
    /\ namespace = new.namespace
    /\ method_context = new.method_context
    /\ current_scope = new.current_scope
    /\ stack = <<>>
    /\ prop = PNone
    /\ ev = Event("new", Root, ArgsEmpty, new, Ok(None), PNone, "-", NoTerm)
    /\ ncalls = 0
    /\ init = InitIdle
    /\ visited = NoVisits
    /\ field = NoField
    /\ io = NoIo
    /\ wr = NoWrite

SetContext(ctx) ==
    /\ namespace' = ctx.namespace
    /\ method_context' = ctx.method_context
    /\ current_scope' = ctx.current_scope

\* The host calls parse_table.  An empty stream is refused at once;
\* otherwise the table's term list starts to be parsed.
ParseTable(table) ==
    /\ ~Running
    /\ init.phase = "idle"
    /\ ncalls < MaxCalls
    /\ ncalls' = ncalls + 1
    /\ visited' = NoVisits
    /\ UNCHANGED <<init, fieldvars>>
    /\ prop' = PNone
    /\ UNCHANGED <<namespace, method_context, current_scope>>
    /\ IF table = <<>>
       THEN /\ stack' = <<>>
            /\ ev' = Event("table", Root, ArgsEmpty, Ctx, Err(E("UnexpectedEndOfStream")),
                           PNone, "-", NoTerm)
       ELSE /\ stack' = <<Frame("table", Root, ArgsEmpty, table, None, Root, Ctx)>>
            /\ ev' = Event("enter", Root, ArgsEmpty, Ctx, Ok(None), PNone, "table", NoTerm)

\* invoke_method is called, by the host (nested = FALSE) or by a method
\* invocation in the term list being parsed, whose remaining terms are
\* `rest`.  Either it returns at once, or the method's body starts.
Invoke(path, args, rest, nested) ==
    LET r == invoke_method(Ctx, path, args)
        caller == IF nested THEN <<[Top EXCEPT !.code = rest]>> \o Tail(stack) ELSE <<>>
    IN /\ SetContext(r.ctx)
       /\ IF r.ran = "aml"
          THEN /\ stack' = <<Frame("method", path, args, r.code.terms,
                                   Ctx.method_context, Ctx.current_scope, Ctx)>> \o caller
               /\ prop' = PNone
               /\ ev' = Event("enter", path, args, Ctx, Ok(None), PNone, "aml", NoTerm)
          ELSE /\ stack' = caller
               /\ prop' = IF nested THEN Propagated(r.result) ELSE PNone
               /\ ev' = Event("invoke", path, args, Ctx, r.result, r.body, r.ran, NoTerm)

\* The host calls invoke_method.
InvokeMethod(call) ==
    /\ ~Running
    /\ init.phase = "idle"
    /\ ncalls < MaxCalls
    /\ ncalls' = ncalls + 1
    /\ visited' = NoVisits
    /\ UNCHANGED <<init, fieldvars>>
    /\ Invoke(call.path, ArgsFrom(call.args), <<>>, FALSE)

\* The arguments of a method invocation, evaluated in order: the values, or
\* the first error.
RECURSIVE term_args(_, _)
term_args(ctx, operands) ==
    IF operands = <<>> THEN [err |-> NoError, vals |-> <<>>]
    ELSE LET v == term_arg(ctx, Head(operands))
             more == term_args(ctx, Tail(operands))
         IN IF ~v.ok THEN [err |-> v.err, vals |-> <<>>]
            ELSE IF more.err # NoError THEN more
            ELSE [err |-> NoError, vals |-> <<v.val>> \o more.vals]

\* The next term of the running term list is a method invocation.
MethodInvocation ==
    /\ Running
    /\ prop = PNone
    /\ Top.code # <<>>
    /\ Head(Top.code).op = "Call"
    /\ Len(stack) < MaxDepth
    /\ UNCHANGED <<ncalls, initvars, fieldvars>>
    /\ LET t == Head(Top.code)
           name == search(namespace, t.name, current_scope)
           args == term_args(Ctx, t.args)
       IN IF name.err # NoError \/ args.err # NoError
          THEN /\ prop' = PErr(IF name.err # NoError THEN name.err ELSE args.err)
               /\ stack' = <<[Top EXCEPT !.code = Tail(Top.code)]>> \o Tail(stack)
               /\ ev' = Event("term", Root, ArgsEmpty, Ctx, Ok(None), prop', "-", t)
               /\ UNCHANGED <<namespace, method_context, current_scope>>
          ELSE Invoke(name.path, ArgsFrom(args.vals), Tail(Top.code), TRUE)

\* The next term of the running term list is any other term.
Term ==
    /\ Running
    /\ prop = PNone
    /\ Top.code # <<>>
    /\ Head(Top.code).op # "Call"
    /\ UNCHANGED <<ncalls, initvars, fieldvars>>
    /\ LET r == term_object(Ctx, Head(Top.code), Tail(Top.code))
       IN /\ SetContext(r.ctx)
          /\ prop' = r.prop
          /\ stack' = <<[Top EXCEPT !.code = r.code]>> \o Tail(stack)
          /\ ev' = Event("term", Root, ArgsEmpty, Ctx, Ok(None), r.prop, "-", Head(Top.code))

\* The body of a method has been parsed to its end, or a propagation leaves
\* it: invoke_method goes on from the match on the outcome and returns.
MethodReturn ==
    /\ Running
    /\ ~Panicked
    /\ Top.kind = "method"
    /\ Top.code = <<>> \/ prop # PNone
    /\ UNCHANGED <<ncalls, visited, fieldvars>>
    /\ LET exit == MethodExit(Ctx, Top.path, Top.old_context, Top.old_scope,
                              MethodReturnValue(prop))
       IN /\ SetContext(exit.ctx)
          /\ init' = IF Tail(stack) = <<>> /\ init.phase # "idle"
                     THEN [init EXCEPT !.ret = exit.result]
                     ELSE init
          /\ stack' = Tail(stack)
          /\ prop' = IF Tail(stack) = <<>> THEN PNone ELSE Propagated(exit.result)
          /\ ev' = Event("invoke", Top.path, Top.args, Top.pre, exit.result, prop, "aml", NoTerm)

\* parse_table, were every table to start from the predefined values alone
TableReturnFresh ==
    /\ Running
    /\ ~Panicked
    /\ Top.kind = "table"
    /\ Top.code = <<>> \/ prop # PNone
    /\ UNCHANGED <<ncalls, method_context, current_scope, initvars, fieldvars>>
    /\ namespace' = [levels |-> [l \in DOMAIN namespace.levels \ DOMAIN new.namespace.levels
                                   |-> namespace.levels[l]] @@ new.namespace.levels,
                     values |-> [v \in DOMAIN namespace.values \ DOMAIN Top.pre.namespace.values
                                   |-> namespace.values[v]] @@ new.namespace.values]
    /\ stack' = Tail(stack)
    /\ prop' = PNone
    /\ ev' = Event("table", Root, ArgsEmpty, Top.pre, ParseTableResult(prop), prop, "-", NoTerm)

\* The table has been parsed to its end, or a propagation leaves it:
\* parse_table returns.
TableReturn ==
    /\ Running
    /\ ~Panicked
    /\ Top.kind = "table"
    /\ Top.code = <<>> \/ prop # PNone
    /\ UNCHANGED <<ncalls, namespace, method_context, current_scope, initvars, fieldvars>>
    /\ stack' = Tail(stack)
    /\ prop' = PNone
    /\ ev' = Event("table", Root, ArgsEmpty, Top.pre, ParseTableResult(prop), prop, "-", NoTerm)


\* What invoke_method has returned when Invoke is over: its result, or
\* nothing yet when the method's body has only started.
Returned(r) == IF r.ran = "aml" THEN Ok(None) ELSE r.result

\* initialize_objects calls invoke_method with no arguments.
InitInvoke(path, phase, status, log) ==
    /\ Invoke(path, ArgsEmpty, <<>>, FALSE)
    /\ init' = [init EXCEPT !.phase = phase, !.status = status,
                            !.ret = Returned(invoke_method(Ctx, path, ArgsEmpty))]
    /\ visited' = [visited EXCEPT
                     !.log = Append(log, Invocation(path, ArgsEmpty, FALSE, Ok(None)))]

\* The invoke_method call that initialize_objects made last has returned.
LogReturned(log, result) ==
    [log EXCEPT ![Len(log)] = Invocation(@.path, @.args, TRUE, result)]

\* initialize_objects returns.
InitReturns(result, log) ==
    /\ init' = InitIdle
    /\ visited' = [visited EXCEPT !.log = log]
    /\ ev' = Event("initialized", Root, ArgsEmpty, visited.pre, result, PNone, "-", NoTerm)
    /\ UNCHANGED <<namespace, method_context, current_scope, stack, prop>>

\* traverse, were it to go level by level
InitLeaveBreadthFirst(status, descend, log) ==
    LET path == Head(init.todo)
        below == IF descend THEN InOrder(Children(init.clone, path)) ELSE <<>>
    IN /\ init' = [init EXCEPT !.phase = "traverse", !.todo = Tail(init.todo) \o below,
                               !.status = StatusDefault, !.ret = Ok(None)]
       /\ visited' = [visited EXCEPT
                        !.log = log,
                        !.seen = Append(@, Visit(path, init.clone.levels[path], status, descend))]
       /\ ev' = Event("init", path, ArgsEmpty, Ctx, Ok(None), PNone, "visit", NoTerm)
       /\ UNCHANGED <<namespace, method_context, current_scope, stack, prop>>

\* The visit of the level at the head of `todo` is over: traverse goes into
\* its children or not, and then on to the levels left.
InitLeave(status, descend, log) ==
    LET path == Head(init.todo)
        below == IF descend THEN InOrder(Children(init.clone, path)) ELSE <<>>
    IN /\ init' = [init EXCEPT !.phase = "traverse", !.todo = below \o Tail(init.todo),
                               !.status = StatusDefault, !.ret = Ok(None)]
       /\ visited' = [visited EXCEPT
                        !.log = log,
                        !.seen = Append(@, Visit(path, init.clone.levels[path], status, descend))]
       /\ ev' = Event("init", path, ArgsEmpty, Ctx, Ok(None), PNone, "visit", NoTerm)
       /\ UNCHANGED <<namespace, method_context, current_scope, stack, prop>>

\* The Device arm once the status is known.
InitDevice(status, log) ==
    LET path == Head(init.todo)
    IN IF InvokesIni(status, contains_key(init.clone, path, "_INI"))
       THEN InitInvoke(path \o <<"_INI">>, "ini", status, log)
       ELSE InitLeave(status, DescendDevice(status), log)

\* The host calls initialize_objects: \_SB._INI is invoked.
InitializeObjects ==
    /\ ~Running
    /\ init.phase = "idle"
    /\ ncalls < MaxCalls
    /\ ncalls' = ncalls + 1
    /\ UNCHANGED fieldvars
    /\ Invoke(SbIni, ArgsEmpty, <<>>, FALSE)
    /\ init' = [InitIdle EXCEPT !.phase = "sb_ini",
                                !.ret = Returned(invoke_method(Ctx, SbIni, ArgsEmpty))]
    /\ visited' = Visited(Ctx, <<Invocation(SbIni, ArgsEmpty, FALSE, Ok(None))>>, <<>>)

\* The invocation of \_SB._INI has returned: initialize_objects returns its
\* error, or clones the namespace and starts the traversal at the root.
InitSbIni ==
    /\ ~Running
    /\ init.phase = "sb_ini"
    /\ UNCHANGED <<ncalls, fieldvars>>
    /\ IF SbIniTolerated(init.ret)
       THEN /\ init' = InitState("traverse", namespace, <<Root>>, StatusDefault, Ok(None))
            /\ visited' = [visited EXCEPT !.log = LogReturned(@, init.ret)]
            /\ ev' = Event("init", SbIni, ArgsEmpty, Ctx, init.ret, PNone, "sb_ini", NoTerm)
            /\ UNCHANGED <<namespace, method_context, current_scope, stack, prop>>
       ELSE InitReturns(Err(init.ret.err), LogReturned(visited.log, init.ret))

\* traverse calls the closure with the next level.
InitVisit ==
    /\ ~Running
    /\ init.phase = "traverse"
    /\ init.todo # <<>>
    /\ UNCHANGED <<ncalls, fieldvars>>
    /\ LET path == Head(init.todo)
           typ == init.clone.levels[path]
       IN IF typ # "Device"
          THEN InitLeave(StatusDefault, DescendLevel(typ), visited.log)
          ELSE IF contains_key(init.clone, path, "_STA")
          THEN InitInvoke(path \o <<"_STA">>, "sta", StatusDefault, visited.log)
          ELSE InitDevice(StatusDefault, visited.log)

\* The invocation of the device's _STA has returned: `?` returns its error
\* and the error of as_status.
InitSta ==
    /\ ~Running
    /\ init.phase = "sta"
    /\ UNCHANGED <<ncalls, fieldvars>>
    /\ LET log == LogReturned(visited.log, init.ret)
           status == as_status(init.ret.val)
       IN IF ~init.ret.ok THEN InitReturns(Err(init.ret.err), log)
          ELSE IF ~status.ok THEN InitReturns(Err(status.err), log)
          ELSE InitDevice(status.val, log)

\* The invocation of the device's _INI has returned: `?` returns its error.
InitIni ==
    /\ ~Running
    /\ init.phase = "ini"
    /\ UNCHANGED <<ncalls, fieldvars>>
    /\ LET log == LogReturned(visited.log, init.ret)
       IN IF ~init.ret.ok THEN InitReturns(Err(init.ret.err), log)
          ELSE InitLeave(init.status, DescendDevice(init.status), log)

\* traverse has no level left: initialize_objects returns Ok(()).
InitDone ==
    /\ ~Running
    /\ init.phase = "traverse"
    /\ init.todo = <<>>
    /\ UNCHANGED <<ncalls, fieldvars>>
    /\ InitReturns(Ok(None), visited.log)

\* The index fields, and the byte arrays behind the data register: one with
\* a different byte at every index, one with a byte at index 5 only.
Offsets == {0, 5}

Fields ==
    {IndexField(FieldFlags(access, "Preserve"), offset, length, None) :
       access \in AccessTypes \cup {"Reserved"}, offset \in Offsets, length \in 1..MaxLength}

Memories ==
    {[a \in 0..255 |-> (7 * a + 1) % 256], [a \in 0..255 |-> IF a = 5 THEN 164 ELSE 0]}

\* A context, an index field and the hardware behind it.
InitField ==
    /\ namespace = new.namespace
    /\ method_context = new.method_context
    /\ current_scope = new.current_scope
    /\ stack = <<>>
    /\ prop = PNone
    /\ ev = Event("new", Root, ArgsEmpty, new, Ok(None), PNone, "-", NoTerm)
    /\ ncalls = 0
    /\ init = InitIdle
    /\ visited = NoVisits
    /\ field \in Fields
    /\ io \in {Hardware(0, mem, <<>>, 0) : mem \in Memories}
    /\ wr = NoWrite

\* The index field is read, by a build that checks overflow or by one that
\* does not.
ReadIndexedField ==
    /\ field.result = None
    /\ \E overflow_checks \in BOOLEAN :
         LET r == read_indexed_field(io, field.flags, field.offset, field.length,
                                     overflow_checks)
         IN /\ io' = r.hw
            /\ field' = [field EXCEPT !.result = r.res]
    /\ UNCHANGED <<ctxvars, initvars, wr>>

NextField == ReadIndexedField

SpecField == InitField /\ [][NextField]_vars

\* The index fields that are written, with every update rule, and the values.
WriteLengths == {length \in 1..MaxLength : length \in {1, 4, 8, 12, 16, 64} \/ length = MaxLength}

WriteFields ==
    {IndexField(FieldFlags(access, update), offset, length, None) :
       access \in AccessTypes \cup {"Reserved"}, update \in UpdateRules \cup {"Reserved"},
       offset \in Offsets, length \in WriteLengths}

Values == {Integer(U64(0)), Integer(U64(1)), Integer(U64(165)), Integer(<<90, 195, 0, 0, 0, 0, 0, 129>>)}

\* A context, an index field to write to and the hardware behind it.
InitWrite ==
    /\ namespace = new.namespace
    /\ method_context = new.method_context
    /\ current_scope = new.current_scope
    /\ stack = <<>>
    /\ prop = PNone
    /\ ev = Event("new", Root, ArgsEmpty, new, Ok(None), PNone, "-", NoTerm)
    /\ ncalls = 0
    /\ init = InitIdle
    /\ visited = NoVisits
    /\ field \in WriteFields
    /\ io \in {Hardware(0, mem, <<>>, 0) : mem \in Memories}
    /\ wr \in {Write(value, NoIo, NotWritten) : value \in Values}

\* The index field is written, by a build that checks overflow or by one
\* that does not.
WriteIndexedField ==
    /\ wr.result = NotWritten
    /\ field.result = None
    /\ \E overflow_checks \in BOOLEAN :
         LET w == write_indexed_field(io, field.flags, field.offset, field.length,
                                      wr.value, overflow_checks)
         IN /\ io' = w.hw
            /\ wr' = [wr EXCEPT !.before = io, !.result = w.res]
    /\ UNCHANGED <<ctxvars, initvars, field>>

\* The field that was written is read.
ReadWritten ==
    /\ wr.result = Ok(None)
    /\ ReadIndexedField

NextWrite == WriteIndexedField \/ ReadWritten

SpecWrite == InitWrite /\ [][NextWrite]_vars

Next ==
    \/ \E table \in Tables : ParseTable(table)
    \/ \E call \in Calls : InvokeMethod(call)
    \/ MethodInvocation
    \/ Term
    \/ MethodReturn
    \/ TableReturn
    \/ InitializeObjects
    \/ InitSbIni
    \/ InitVisit
    \/ InitSta
    \/ InitIni
    \/ InitDone

Spec == Init /\ [][Next]_vars

-----------------------------------------------------------------------------
(* The claims.                                                             *)

\* An invoke_method call whose path resolved to a Method has just returned.
MethodInvoked == ev.kind = "invoke" /\ ev.ran \in {"aml", "native", "add_level"}
\* ... and the method's code was run.
MethodRan == ev.kind = "invoke" /\ ev.ran \in {"aml", "native"}
AmlMethodRan == ev.kind = "invoke" /\ ev.ran = "aml"

\* C1: method frame hygiene.  When an invoke_method call whose path resolves
\* to a Method returns, however it ends, method_context and current_scope
\* equal the values they had immediately before the call.
C1_FrameHygiene ==
    MethodInvoked =>
        /\ method_context = ev.pre.method_context
        /\ current_scope = ev.pre.current_scope

\* C2: when the body of an invoked method fails with a user error E,
\* invoke_method returns exactly Err(E); and whether the body failed or
\* succeeded, the MethodLocals level at the method's path is gone when the
\* call returns.
C2_TeardownOnError ==
    MethodRan =>
        /\ ev.body.p = "Err" => ev.result = Err(ev.body.err)
        /\ ev.path \notin DOMAIN namespace.levels

\* C3: an AML method whose body runs to its end without a Return yields
\* Ok(Integer(0)).
C3_ImplicitReturn ==
    AmlMethodRan /\ ev.body.p = "None" => ev.result = Ok(Zero)

\* C4: when Return(v) leaves the body of an AML method, invoke_method yields
\* Ok(v), and the Return does not propagate into the caller.
C4_ExplicitReturn ==
    AmlMethodRan /\ ev.body.p = "Return" =>
        /\ ev.result = Ok(ev.body.val)
        /\ prop.p # "Return"

\* C5: a Break that leaves the body of a method makes invoke_method return
\* Err(BreakInInvalidPosition), a Continue Err(ContinueInInvalidPosition).
C5_BreakContinue ==
    /\ AmlMethodRan /\ ev.body.p = "Break" => ev.result = Err(E("BreakInInvalidPosition"))
    /\ AmlMethodRan /\ ev.body.p = "Continue" => ev.result = Err(E("ContinueInInvalidPosition"))

\* C6: invoke_method on a path that resolves to a value that is no method
\* returns the stored value whatever the arguments, and on a path that
\* resolves to nothing returns an error; neither changes the namespace,
\* method_context or current_scope.
C6_NonMethodVerbatim ==
    /\ ev.kind = "invoke" /\ ev.ran = "value" =>
          /\ ev.result = Ok(ev.pre.namespace.values[ev.path])
          /\ Ctx = ev.pre
    /\ ev.kind = "invoke" /\ ev.ran = "nothing" =>
          /\ ~ev.result.ok
          /\ Ctx = ev.pre

C6_Witness ==
    /\ ev.kind = "invoke" /\ ev.ran = "value"
    /\ ev.args # ArgsEmpty
    /\ ev.result = Ok(Byte(42))

\* C7: right after AmlContext::new the namespace has the levels \_GPE, \_SB,
\* \_SI, \_PR and \_TZ, each a Scope and empty, and the values \_OS, \_REV
\* and \_OSI; no method frame is active and current_scope is the root.
PredefinedScopes == {<<"_GPE">>, <<"_SB">>, <<"_SI">>, <<"_PR">>, <<"_TZ">>}

C7_PreSeeded ==
    ev.kind = "new" =>
        /\ \A s \in PredefinedScopes :
              /\ s \in DOMAIN namespace.levels
              /\ namespace.levels[s] = "Scope"
              /\ \A p \in (DOMAIN namespace.levels \cup DOMAIN namespace.values) \ {Root} :
                    Parent(p) # s
        /\ <<"_OS">> \in DOMAIN namespace.values
        /\ namespace.values[<<"_OS">>] = String("Microsoft Windows NT")
        /\ <<"_REV">> \in DOMAIN namespace.values
        /\ namespace.values[<<"_REV">>] = Integer(<<2, 0, 0, 0, 0, 0, 0, 0>>)
        /\ <<"_OSI">> \in DOMAIN namespace.values
        /\ namespace.values[<<"_OSI">>].type = "Method"
        /\ namespace.values[<<"_OSI">>].code.kind = "Native"
        /\ namespace.values[<<"_OSI">>].arg_count = 1
        /\ method_context = None
        /\ current_scope = Root

C7_Witness ==
    /\ ev.kind = "new"
    /\ ncalls = 0
    /\ DOMAIN namespace.values = {<<"_OS">>, <<"_OSI">>, <<"_REV">>}

\* C8: invoke_method(\_OSI, [s]) returns the all-ones Integer exactly when s
\* is one of the allow-listed strings and Integer(0) for every other
\* string, whatever was invoked or parsed before.
OsiAllowed == {
    "Windows 2000", "Windows 2001", "Windows 2001 SP1", "Windows 2001 SP2",
    "Windows 2001.1", "Windows 2001.1 SP1", "Windows 2006", "Windows 2006 SP1",
    "Windows 2006 SP2", "Windows 2006.1", "Windows 2009", "Windows 2012",
    "Windows 2013", "Windows 2015", "Windows 2016", "Windows 2017",
    "Windows 2017.2", "Windows 2018", "Windows 2018.2", "Windows 2019",
    "Darwin", "Extended Address Space Descriptor", "3.0 Thermal Model",
    "3.0 _SCP Extensions" }

AllOnes == Integer(<<255, 255, 255, 255, 255, 255, 255, 255>>)

ReadsArgOrLocal(t) == t.op \in {"Store", "Return", "If"} /\ t.src.k \in {"Arg", "Local"}
StoresArgOrLocal(t) == t.op = "Store" /\ t.target.k \in {"Arg", "Local"}

C9_NoFrameNoArgsLocals ==
    /\ ev.kind = "term"
    /\ ev.pre.method_context = None
    /\ ReadsArgOrLocal(ev.term) \/ StoresArgOrLocal(ev.term)
    => /\ ev.body = PErr(E("NotExecutingControlMethod"))
       /\ Ctx = ev.pre

C9_Witness ==
    /\ ev.kind = "term"
    /\ ev.pre.method_context = None
    /\ ev.term = DefReturn(LocalObj(0))
    /\ ev.body.p = "Err"
    /\ ncalls > 1

\* C10 as claimed: a Break or Continue that leaves the top-level term list
\* makes parse_table fail with BreakInInvalidPosition or
\* ContinueInInvalidPosition, and a Return is an implicit return: parse_table
\* succeeds.
C10_TopLevelAsInMethod ==
    ev.kind = "table" =>
        /\ ev.body.p = "Break" => ev.result = Err(E("BreakInInvalidPosition"))
        /\ ev.body.p = "Continue" => ev.result = Err(E("ContinueInInvalidPosition"))
        /\ ev.body.p = "Return" => ev.result.ok

\* C10 as amended: a Break, a Continue or a Return that leaves the top-level
\* term list makes parse_table fail with MalformedStream.
C10_TopLevelMalformedStream ==
    ev.kind = "table" /\ ev.body.p \in {"Break", "Continue", "Return"} =>
        ev.result = Err(E("MalformedStream"))

C10_Witness ==
    /\ ev.kind = "table"
    /\ ev.body.p = "Break"
    /\ <<"TBRK">> \in DOMAIN namespace.values


-----------------------------------------------------------------------------
(* initialize_objects.                                                     *)

\* The invoke_method calls of the initialize_objects call that is running,
\* or that was the host's last call.
Log == visited.log
Seen == visited.seen

Last(path) == path[Len(path)]

\* The device whose _STA or _INI the i-th call invoked (i > 1)
DeviceOf(i) == Parent(Log[i].path)

WasInvoked(path) == \E i \in DOMAIN Log : Log[i].path = path

\* The status of a device as the claims define it: bit n of what invoking its
\* _STA returned when the level has one, present and functional otherwise.
StaResult(device) ==
    Log[CHOOSE i \in DOMAIN Log : Log[i].path = device \o <<"_STA">>].result

StatusBit(ns, device, n) ==
    IF (device \o <<"_STA">>) \in DOMAIN ns.values
    THEN (StaResult(device).val.int[1] \div (2 ^ n)) % 2 = 1
    ELSE TRUE

\* C11: initialize_objects first handles \_SB._INI: its first invoke_method
\* call is that of \_SB._INI with no arguments, every later call is that of a
\* _STA or _INI of a Device level and none is \_SB._INI again; when \_SB._INI
\* does not exist, the traversal starts at the root all the same and
\* initialize_objects does not return the error of that call.
C11_SbIniFirst ==
    Log # <<>> =>
      /\ Log[1].path = SbIni
      /\ Log[1].args = ArgsEmpty
      /\ \A i \in 2..Len(Log) :
           /\ Log[i].path # SbIni
           /\ Last(Log[i].path) \in {"_STA", "_INI"}
           /\ init.phase # "idle" => init.clone.levels[DeviceOf(i)] = "Device"
      /\ SbIni \notin DOMAIN visited.pre.namespace.values =>
           /\ ev.kind = "init" /\ ev.ran = "sb_ini" =>
                init.phase = "traverse" /\ init.todo = <<Root>>
           /\ ev.kind = "initialized" =>
                ev.result # Err(Error("ValueDoesNotExist", 0, SbIni))

\* \_SB._INI exists and has been invoked, and then a device's _INI.
C11_Witness ==
    /\ SbIni \in DOMAIN visited.pre.namespace.values
    /\ Len(Log) >= 2
    /\ Log[1].returned /\ Log[1].result.ok
    /\ Last(Log[2].path) = "_INI"

\* C12: for every Device level whose visit is over, and for the device being
\* visited, _INI has been invoked if and only if the level has an _INI and
\* bit 0 of the status is set; _STA has been invoked if and only if the level
\* has one.
C12_IniGating ==
    init.phase # "idle" =>
      /\ \A k \in DOMAIN Seen :
           LET device == Seen[k].path
           IN Seen[k].typ = "Device" =>
                /\ WasInvoked(device \o <<"_STA">>) <=>
                     contains_key(init.clone, device, "_STA")
                /\ WasInvoked(device \o <<"_INI">>) <=>
                     /\ contains_key(init.clone, device, "_INI")
                     /\ StatusBit(init.clone, device, 0)
      /\ \A i \in 2..Len(Log) :
           Last(Log[i].path) = "_INI" =>
             /\ contains_key(init.clone, DeviceOf(i), "_INI")
             /\ StatusBit(init.clone, DeviceOf(i), 0)

\* A device whose _STA returned 0 and that has an _INI has been visited, and
\* a device with no _STA whose _INI was invoked.
C12_Witness ==
    /\ init.phase # "idle"
    /\ \E k \in DOMAIN Seen :
         /\ Seen[k].typ = "Device"
         /\ contains_key(init.clone, Seen[k].path, "_STA")
         /\ contains_key(init.clone, Seen[k].path, "_INI")
         /\ StaResult(Seen[k].path).val = Zero
    /\ \E k \in DOMAIN Seen :
         /\ Seen[k].typ = "Device"
         /\ ~contains_key(init.clone, Seen[k].path, "_STA")
         /\ WasInvoked(Seen[k].path \o <<"_INI">>)

\* Whether traverse is to go into the children of a level, as the claim has it
Descends(ns, level) ==
    CASE ns.levels[level] = "Device" -> StatusBit(ns, level, 0) \/ StatusBit(ns, level, 3)
      [] ns.levels[level] = "Scope" -> TRUE
      [] OTHER -> FALSE

ProperAncestors(path) == {SubSeq(path, 1, n) : n \in 0..(Len(path) - 1)}

SeenPaths == {Seen[k].path : k \in DOMAIN Seen}

\* C13: traverse goes into the children of a level whose visit is over if
\* and only if the level is a Scope, or a Device whose status has bit 0 or
\* bit 3 set; every level visited lies beneath such levels only, and so does
\* every device whose _STA or _INI is invoked; when the traversal is over,
\* every child of such a visited level has been visited.
C13_DescentGating ==
    init.phase # "idle" =>
      /\ \A k \in DOMAIN Seen :
           /\ Seen[k].descended <=> Descends(init.clone, Seen[k].path)
           /\ \A a \in ProperAncestors(Seen[k].path) :
                a \in SeenPaths /\ Descends(init.clone, a)
      /\ \A i \in 2..Len(Log) :
           \A a \in ProperAncestors(DeviceOf(i)) :
             a \in SeenPaths /\ Descends(init.clone, a)
      /\ init.phase = "traverse" /\ init.todo = <<>> =>
           \A k \in DOMAIN Seen :
             Descends(init.clone, Seen[k].path) =>
               Children(init.clone, Seen[k].path) \subseteq SeenPaths

\* The traversal is over: it has gone into a device that is functional but
\* not present, not into one that is neither, and not into a processor, a
\* power resource or a thermal zone that has a device beneath it.
C13_Witness ==
    /\ init.phase = "traverse" /\ init.todo = <<>>
    /\ \E k \in DOMAIN Seen :
         /\ Seen[k].typ = "Device" /\ Seen[k].descended
         /\ ~StatusBit(init.clone, Seen[k].path, 0)
         /\ Children(init.clone, Seen[k].path) # {}
    /\ \E k \in DOMAIN Seen :
         /\ Seen[k].typ = "Device" /\ ~Seen[k].descended
         /\ Children(init.clone, Seen[k].path) # {}
    /\ \A typ \in {"Processor", "PowerResource", "ThermalZone"} :
         \E k \in DOMAIN Seen :
           /\ Seen[k].typ = typ /\ ~Seen[k].descended
           /\ Children(init.clone, Seen[k].path) # {}

\* C14: when an invoke_method call of initialize_objects has failed, other
\* than that of a \_SB._INI that does not exist, initialize_objects has
\* returned that error and the call is the last one it made.
C14_ErrorsSurface ==
    \A i \in DOMAIN Log :
      (/\ Log[i].returned
       /\ ~Log[i].result.ok
       /\ ~(i = 1 /\ SbIni \notin DOMAIN visited.pre.namespace.values)) =>
        /\ i = Len(Log)
        /\ init.phase = "idle"
        /\ ev.kind = "initialized"
        /\ ev.result = Err(Log[i].result.err)


-----------------------------------------------------------------------------
(* store.                                                                  *)

StoreDone(kinds) ==
    /\ ev.kind = "term"
    /\ ev.term.op = "Store"
    /\ ev.term.target.k \in kinds
    /\ term_arg(ev.pre, ev.term.src).ok

\* The value that the Store just executed has stored
Stored == term_arg(ev.pre, ev.term.src).val

StoreToName ==
    /\ StoreDone({"Name"})
    /\ search(ev.pre.namespace, ev.term.target.name, ev.pre.current_scope).err = NoError

\* The handle of that target
Handle == search(ev.pre.namespace, ev.term.target.name, ev.pre.current_scope).path

\* C16: a store to a named data object either succeeds, and then the object
\* has the type it had, holds the source converted to that type, store
\* returns the value the object holds and no other value of the namespace
\* has changed; or the conversion fails, and then store returns
\* IncompatibleValueConversion and the context is as before.
C16_StoreToName ==
    StoreToName =>
      LET old == ev.pre.namespace.values[Handle]
          converted == as_type(Stored, TypeOf(old))
          result == store(ev.pre, ev.term.target, Stored).res
      IN IF ev.body = PNone
         THEN /\ converted.ok
              /\ result.ok
              /\ DOMAIN namespace.values = DOMAIN ev.pre.namespace.values
              /\ TypeOf(namespace.values[Handle]) = TypeOf(old)
              /\ namespace.values[Handle] = converted.val
              /\ result.val = namespace.values[Handle]
              /\ \A p \in DOMAIN namespace.values \ {Handle} :
                   namespace.values[p] = ev.pre.namespace.values[p]
              /\ namespace.levels = ev.pre.namespace.levels
         ELSE /\ ~converted.ok
              /\ ev.body = PErr(E("IncompatibleValueConversion"))
              /\ result = Err(E("IncompatibleValueConversion"))
              /\ Ctx = ev.pre

\* A string has been stored to an integer and the integer it spells is
\* there now.
C16_Witness ==
    /\ StoreToName
    /\ ev.body = PNone
    /\ Stored = String("0x2A")
    /\ namespace.values[Handle] = Byte(42)


-----------------------------------------------------------------------------
(* Index fields.                                                           *)

\* The field has been read and the flags name an access type
ReadDone == field.result # None /\ field.flags.access \in AccessTypes

\* The access width as the claims define it
MinimumWidth(access) ==
    CASE access \in {"Any", "Byte", "Buffer"} -> 8
      [] access = "Word" -> 16
      [] access = "DWord" -> 32
      [] access = "QWord" -> 64

RoundedUp(length) ==
    CHOOSE p \in {2 ^ e : e \in 0..8} :
      p >= length /\ \A q \in {2 ^ e : e \in 0..8} : q >= length => p <= q

Width == Max(MinimumWidth(field.flags.access), RoundedUp(field.length))

\* C17: a read of an index field of width W at byte offset B makes W/8 pairs
\* of accesses, the k-th a write of B+k to the index port followed by a read
\* of the data port; an 8-bit field with Byte access at offset 5 is read by
\* one write of 5 and one read, and the result is the byte read.
C17_ReadSequence ==
    ReadDone =>
      /\ Len(io.trace) = 2 * (Width \div 8)
      /\ \A k \in 0..((Width \div 8) - 1) :
           /\ io.trace[2 * k + 1] = IoOp("write_io_u8", IndexPort, field.offset + k)
           /\ io.trace[2 * k + 2] = IoOp("read_io_u8", DataPort, io.mem[field.offset + k])
      /\ field.flags.access = "Byte" /\ field.length = 8 /\ field.offset = 5 =>
           /\ io.trace = << IoOp("write_io_u8", IndexPort, 5),
                            IoOp("read_io_u8", DataPort, io.mem[5]) >>
           /\ field.result = Ok(Integer(U64(io.mem[5])))

\* C19: a read of an index field of 1 to 64 bits returns the integer whose
\* byte k is the byte at offset+k for k < W/8 and whose other bytes are 0,
\* and no shift is by 64 bits or more.
C19_ReadResult ==
    ReadDone /\ field.length \in 1..64 =>
      /\ field.result =
           Ok(Integer([k \in 1..8 |-> IF k <= Width \div 8
                                      THEN io.mem[field.offset + k - 1]
                                      ELSE 0]))
      /\ io.shift < 64

\* C20: the number of turns of the loop, which is the access width used, is
\* the greater of the minimum for the access type and the bit-length rounded
\* up to a power of two, and it is 8, 16, 32 or 64.
C20_AccessWidth ==
    ReadDone /\ field.result.ok =>
      /\ Len(io.trace) \div 2 = Width
      /\ Len(io.trace) \div 2 \in {8, 16, 32, 64}


-----------------------------------------------------------------------------
(* parse_table, one table after another.                                   *)

PredefinedValues == {<<"_OS">>, <<"_OSI">>, <<"_REV">>}

\* parse_table has returned Ok
TableParsed == ev.kind = "table" /\ ev.result.ok

\* The names of the values that were methods before the call
MethodsBefore ==
    {p \in DOMAIN ev.pre.namespace.values : ev.pre.namespace.values[p].type = "Method"}

\* C18: when parse_table succeeds, every level and every value name that
\* existed before the call exists after it, the predefined ones among them;
\* a lookup of a name from before the call finds a value, and invoke_method
\* finds every method from before the call.
C18_TablesExtend ==
    TableParsed =>
      /\ DOMAIN ev.pre.namespace.levels \subseteq DOMAIN namespace.levels
      /\ DOMAIN ev.pre.namespace.values \subseteq DOMAIN namespace.values
      /\ PredefinedScopes \subseteq DOMAIN namespace.levels
      /\ PredefinedValues \subseteq DOMAIN namespace.values
      /\ \A p \in DOMAIN ev.pre.namespace.values : get_by_path(namespace, p).ok
      /\ \A p \in MethodsBefore :
            invoke_method(Ctx, p, ArgsEmpty).ran \in {"aml", "native", "add_level"}

\* A table has been parsed after an earlier one: the earlier table's method
\* and the later table's objects are both there.
C18_Witness ==
    /\ TableParsed
    /\ ncalls >= 2
    /\ MethodsBefore \ DOMAIN new.namespace.values # {}
    /\ DOMAIN namespace.values \ DOMAIN ev.pre.namespace.values # {}
    /\ \E p \in MethodsBefore \ DOMAIN new.namespace.values :
          invoke_method(Ctx, p, ArgsEmpty).ran = "aml"


-----------------------------------------------------------------------------
(* Writes of index fields.                                                 *)

\* write_indexed_field has been called, with flags that name an access type
\* and an update rule
Written ==
    /\ wr.result # NotWritten
    /\ field.flags.access \in AccessTypes
    /\ field.flags.update \in UpdateRules

\* ... and the field has not been read since
WriteDone == Written /\ field.result = None

\* The accesses of the write: the reads and the writes of the data register
DataReads == {j \in 1..Len(io.trace) : io.trace[j].op = "read_io_u8"}

DataWrites ==
    {j \in 1..Len(io.trace) : io.trace[j].op = "write_io_u8" /\ io.trace[j].port = DataPort}

IndexWrites ==
    {j \in 1..Len(io.trace) : io.trace[j].op = "write_io_u8" /\ io.trace[j].port = IndexPort}

\* The index that the data access at position j of the trace goes to
IndexAt(j) == io.trace[j - 1].value

\* The bits of the byte stored at position j that lie outside the field:
\* bit b of the byte at index B+k is bit 8k+b of the chunk.
OutsideBits(j) ==
    {b \in 0..7 : 8 * (IndexAt(j) - field.offset) + b >= field.length}

BitOf(byte, b) == (byte \div (2 ^ b)) % 2

\* C21: with Preserve every read of the data register comes before every
\* write of it, no write is made without a read, and each bit written
\* outside the field is the bit read at that index; with WriteAsOnes and
\* WriteAsZeros the data register is not read, and each bit written outside
\* the field is 1, or 0.
C21_UpdateRule ==
    WriteDone =>
      /\ field.flags.update = "Preserve" =>
           /\ \A r \in DataReads : \A w \in DataWrites : r < w
           /\ DataWrites # {} => DataReads # {}
           /\ \A w \in DataWrites : \A b \in OutsideBits(w) :
                 BitOf(io.trace[w].value, b) = BitOf(wr.before.mem[IndexAt(w)], b)
      /\ field.flags.update = "WriteAsOnes" =>
           /\ DataReads = {}
           /\ \A w \in DataWrites : \A b \in OutsideBits(w) : BitOf(io.trace[w].value, b) = 1
      /\ field.flags.update = "WriteAsZeros" =>
           /\ DataReads = {}
           /\ \A w \in DataWrites : \A b \in OutsideBits(w) : BitOf(io.trace[w].value, b) = 0

\* C22: a write of an index field of width W at byte offset B never sets the
\* index register outside B..B+W/8-1; when it completes it has made W/8
\* stores to the data register, one for each index of that range, each
\* right after the write of that index.
C22_WriteFootprint ==
    WriteDone =>
      /\ \A j \in IndexWrites :
            io.trace[j].value \in field.offset..(field.offset + (Width \div 8) - 1)
      /\ wr.result.ok =>
            /\ Cardinality(DataWrites) = Width \div 8
            /\ \A k \in 0..((Width \div 8) - 1) :
                  \E j \in DataWrites : io.trace[j - 1] = IoOp("write_io_u8", IndexPort,
                                                                field.offset + k)

\* The low `length` bits of a u64, the others cleared
LowBits(int, length) == FromBits([n \in 0..63 |-> IF n < length THEN Bit(int, n) ELSE 0])

\* C27: a write of a field of 1 to 64 bits completes, and a read of the
\* field that follows returns the low bits of the value written.
C27_RoundTrip ==
    Written /\ field.length \in 1..64 =>
      /\ wr.result = Ok(None)
      /\ field.result # None =>
            field.result = Ok(Integer(LowBits(wr.value.int, field.length)))


-----------------------------------------------------------------------------
(* The locals of nested invocations.                                       *)

\* The body of a method has just been entered
Entered == ev.kind = "enter" /\ ev.ran = "aml"

\* A nested invoke_method has just returned, and its caller goes on
Resumed == ev.kind = "invoke" /\ Running /\ prop = PNone

\* C23: when the body of a method is entered its 8 locals are null, and
\* reading Local n fails with InvalidLocalAccess(n), whatever the caller's
\* locals hold; when a nested invocation has returned and its caller goes
\* on, the caller's locals and args are those from before the call.
C23_FreshLocals ==
    /\ Entered =>
          /\ method_context.args = ev.args
          /\ \A n \in 0..(NumLocals - 1) :
                /\ method_context.locals[n + 1] = None
                /\ local(method_context, n) = Err(Error("InvalidLocalAccess", n, Root))
    /\ Resumed => method_context = ev.pre.method_context

\* A method that has stored into its Local2 invokes a method, which starts
\* with no Local2 ...
C23_WitnessEntry ==
    /\ Entered
    /\ ev.pre.method_context # None
    /\ ev.pre.method_context.locals[3] = Byte(7)
    /\ local(method_context, 2) = Err(Error("InvalidLocalAccess", 2, Root))

\* ... and stores into its Local0; after it has returned the caller's
\* Local2 is there and its Local0 is not.
C23_Witness ==
    /\ Resumed
    /\ method_context # None
    /\ local(method_context, 2) = Ok(Byte(7))
    /\ local(method_context, 0) = Err(Error("InvalidLocalAccess", 0, Root))
    /\ ev.path = <<"M000">>


-----------------------------------------------------------------------------
(* The order of initialize_objects.                                        *)

\* `above` is a level that `below` lies beneath
Beneath(below, above) == above \in ProperAncestors(below)

\* C24: the levels are visited in pre-order: each once, after the levels it
\* lies beneath, and with nothing but the levels beneath it between a level
\* and any level beneath it.  No _STA and no _INI is invoked twice; a
\* device's _STA is invoked before its _INI, and both before the _STA and the
\* _INI of every device beneath it.
C24_InitOrder ==
    /\ \A k, m \in DOMAIN Seen :
          /\ Seen[k].path = Seen[m].path => k = m
          /\ Beneath(Seen[m].path, Seen[k].path) =>
                /\ k < m
                /\ \A n \in k..m : n # k => Beneath(Seen[n].path, Seen[k].path)
    /\ \A i, j \in DOMAIN Log :
          /\ Log[i].path = Log[j].path => i = j
          /\ i >= 2 /\ j >= 2 =>
                /\ DeviceOf(i) = DeviceOf(j) /\ Last(Log[i].path) = "_STA"
                     /\ Last(Log[j].path) = "_INI" => i < j
                /\ Beneath(DeviceOf(j), DeviceOf(i)) => i < j

\* The traversal is over: a device's _INI was invoked, then the _STA of a
\* device beneath it and then that device's _INI; and the level visited
\* after a device beneath \_SB was a level beneath that device.
C24_Witness ==
    /\ init.phase = "traverse" /\ init.todo = <<>>
    /\ \E i, j, k \in DOMAIN Log :
          /\ i < j /\ j < k
          /\ Log[i].path = <<"_SB", "D1", "_INI">>
          /\ Log[j].path = <<"_SB", "D1", "C1", "_STA">>
          /\ Log[k].path = <<"_SB", "D1", "C1", "_INI">>
    /\ \E k \in DOMAIN Seen :
          /\ k < Len(Seen)
          /\ Len(Seen[k].path) = 2
          /\ Beneath(Seen[k + 1].path, Seen[k].path)
    /\ Cardinality({k \in DOMAIN Seen : Seen[k].typ = "Device"}) >= 5


-----------------------------------------------------------------------------
(* Stores to Debug.                                                        *)

\* C25: a store to Debug, inside a method or outside, ends without an error
\* or a panic and leaves the namespace, the method frame and the current
\* scope as they were.
C25_StoreDebug ==
    StoreDone({"Debug"}) =>
      /\ ev.body = PNone
      /\ ~Panicked
      /\ Ctx = ev.pre


-----------------------------------------------------------------------------
(* The depth of nested invocations.                                        *)

\* C26: the nesting of invoke_method calls ends, with an error of its own,
\* at a fixed limit: a chain of invocations does not go on to whatever
\* depth it is followed to.
C26_BoundedRecursion == Len(stack) < MaxDepth


-----------------------------------------------------------------------------
(* The level of a method's local objects.                                  *)

\* C28: while an invocation of a method is running, nested invocations
\* returned or not, the MethodLocals level at the method's path is there;
\* and a method whose body ends or returns, whatever it has invoked, makes
\* invoke_method return the method's own value.
C28_LocalsLevelLifetime ==
    /\ \A i \in DOMAIN stack :
          stack[i].kind = "method" =>
            /\ stack[i].path \in DOMAIN namespace.levels
            /\ namespace.levels[stack[i].path] = "MethodLocals"
    /\ ev.kind = "invoke" /\ ev.ran = "aml" /\ ev.body.p \in {"None", "Return"} =>
          ev.result = MethodReturnValue(ev.body)

====
